---- MODULE Spec2Model ----
(***************************************************************************)
(* Model of src/index.js: a Discord bot that keeps per-author activity     *)
(* counters in the object `stats`, persists them to stats.json after every *)
(* processed message, backfills channel history on !fetchHistory and       *)
(* renders leaderboards on !stats.                                         *)
(*                                                                         *)
(* Strings whose characters the code inspects (message content, attachment *)
(* names) are sequences of one-character strings.  A JavaScript object     *)
(* with string keys is a sequence of [id, rec] entries in insertion order  *)
(* (user ids are snowflakes, never array indices, so Object.entries yields *)
(* insertion order).  A record of `stats` is a function whose DOMAIN is    *)
(* the set of properties the object has: a property that is absent reads   *)
(* as undefined.                                                           *)
(***************************************************************************)
EXTENDS Integers, Sequences, FiniteSets, TLC

(***************************************************************************)
(* Bounds of the model.                                                    *)
(***************************************************************************)
\* live messageCreate events delivered in one behaviour
MaxLive == 2
\* environment faults in one behaviour: a failing history fetch, a failing
\* member fetch, the disk starting to reject writes
MaxFaults == 1

(***************************************************************************)
(* Characters and string primitives.                                       *)
(***************************************************************************)
Upper == <<"A","B","C","D","E","F","G","H","I","J","K","L","M",
           "N","O","P","Q","R","S","T","U","V","W","X","Y","Z">>
Lower == <<"a","b","c","d","e","f","g","h","i","j","k","l","m",
           "n","o","p","q","r","s","t","u","v","w","x","y","z">>

\* the characters \s matches, among those the model uses
Whitespace == {" ", "\n", "\t"}

\* String.prototype.toLowerCase on one character
toLowerChar(c) ==
  IF \E i \in 1..26 : Upper[i] = c
    THEN Lower[CHOOSE i \in 1..26 : Upper[i] = c]
    ELSE c

\* String.prototype.toLowerCase
toLowerCase(s) == [i \in 1..Len(s) |-> toLowerChar(s[i])]

\* String.prototype.endsWith
endsWith(s, suffix) ==
  /\ Len(s) >= Len(suffix)
  /\ SubSeq(s, Len(s) - Len(suffix) + 1, Len(s)) = suffix

\* whether `word` occurs in s starting at position i (1-based)
occursAt(s, i, word) ==
  /\ i + Len(word) - 1 <= Len(s)
  /\ SubSeq(s, i, i + Len(word) - 1) = word

DotPng  == <<".","p","n","g">>
DotJpg  == <<".","j","p","g">>
DotJpeg == <<".","j","p","e","g">>
DotGif  == <<".","g","i","f">>
DotMp4  == <<".","m","p","4">>
DotMov  == <<".","m","o","v">>
DotAvi  == <<".","a","v","i">>
DotWmv  == <<".","w","m","v">>
Http    == <<"h","t","t","p",":","/","/">>
Https   == <<"h","t","t","p","s",":","/","/">>

\* the positions >= lastIndex at which /(https?:\/\/[^\s]+)/ matches: the
\* scheme, then at least one character that is not whitespace
linkMatchesFrom(content, lastIndex) ==
  { i \in (lastIndex + 1)..Len(content) :
      \/ /\ occursAt(content, i, Http)
         /\ i + Len(Http) <= Len(content)
         /\ content[i + Len(Http)] \notin Whitespace
      \/ /\ occursAt(content, i, Https)
         /\ i + Len(Https) <= Len(content)
         /\ content[i + Len(Https)] \notin Whitespace }

\* linkRegex.test(message.content): linkRegex is a new RegExp object in
\* every call of processMessage, so test() starts at lastIndex 0; the /g
\* flag only moves the lastIndex of that object, which the call drops
linkRegexTest(content) == linkMatchesFrom(content, 0) # {}

(***************************************************************************)
(* Users, messages and attachments.                                        *)
(***************************************************************************)
\* the category properties of a record of stats, in the order of the source
Categories == <<"messages", "images", "gifs", "videos", "links">>
CategorySet == {Categories[i] : i \in 1..Len(Categories)}

\* an attachment; name is null for hasName = FALSE
File(name) == [hasName |-> TRUE, name |-> name]
NullFile == [hasName |-> FALSE, name |-> <<>>]

\* a message as the handlers read it: author.id, author.username,
\* author.bot, content, attachments
Msg(id, username, bot, content, attachments) ==
  [author |-> [id |-> id, username |-> username, bot |-> bot],
   content |-> content, attachments |-> attachments]

(***************************************************************************)
(* The object stats: a sequence of entries [id, rec] in insertion order.   *)
(***************************************************************************)
\* the one element of a set of one element
the(single) == CHOOSE x \in single : TRUE

hasKey(S, id) == \E i \in 1..Len(S) : S[i].id = id
keyIndex(S, id) == CHOOSE i \in 1..Len(S) : S[i].id = id
getRec(S, id) == S[keyIndex(S, id)].rec
\* a buggy variant: the assignment replaces the whole object
putRecAlone(S, id, rec) == <<[id |-> id, rec |-> rec]>>

\* stats[id] = rec: a new key goes last
putRec(S, id, rec) ==
  IF hasKey(S, id)
    THEN [S EXCEPT ![keyIndex(S, id)].rec = rec]
    ELSE Append(S, [id |-> id, rec |-> rec])

\* obj[f] = v on a record: the property is added when it is absent
setProp(rec, f, v) == (f :> v) @@ rec

\* if (rec[f] === undefined) rec[f] = 0
repairProp(rec, f) == rec @@ (f :> 0)

\* rec[f]++ on a property that holds a number
incProp(rec, f) == [rec EXCEPT ![f] = @ + 1]

\* a buggy variant: an existing record gets its counters set to 0
initUserStatsReset(S, message) ==
  putRec(S, message.author.id,
         [username |-> message.author.username, messages |-> 0, images |-> 0,
          gifs |-> 0, videos |-> 0, links |-> 0])

\* initUserStats(message), as a function of the stats it acts on
initUserStats(S, message) ==
  LET userId == message.author.id
      username == message.author.username
  IN IF ~hasKey(S, userId)
       THEN putRec(S, userId,
                   [username |-> username, messages |-> 0, images |-> 0,
                    gifs |-> 0, videos |-> 0, links |-> 0])
       ELSE LET r0 == setProp(getRec(S, userId), "username", username)
                r1 == repairProp(r0, "messages")
                r2 == repairProp(r1, "images")
                r3 == repairProp(r2, "gifs")
                r4 == repairProp(r3, "videos")
                r5 == repairProp(r4, "links")
            IN putRec(S, userId, r5)

\* a buggy variant: the extension is compared without toLowerCase
attachmentCategoryCaseSensitive(attachment) ==
  LET fileName == IF attachment.hasName THEN attachment.name ELSE <<>>
  IN IF endsWith(fileName, DotPng) \/ endsWith(fileName, DotJpg)
        \/ endsWith(fileName, DotJpeg) THEN "images"
     ELSE IF endsWith(fileName, DotGif) THEN "gifs"
     ELSE IF endsWith(fileName, DotMp4) \/ endsWith(fileName, DotMov)
        \/ endsWith(fileName, DotAvi) \/ endsWith(fileName, DotWmv) THEN "videos"
     ELSE "none"

\* the body of the attachments.forEach callback: the counter one attachment
\* increments, "none" when it increments nothing
attachmentCategory(attachment) ==
  LET fileName == IF attachment.hasName /\ toLowerCase(attachment.name) # <<>>
                    THEN toLowerCase(attachment.name) ELSE <<>>
  IN IF endsWith(fileName, DotPng) \/ endsWith(fileName, DotJpg)
        \/ endsWith(fileName, DotJpeg) THEN "images"
     ELSE IF endsWith(fileName, DotGif) THEN "gifs"
     ELSE IF endsWith(fileName, DotMp4) \/ endsWith(fileName, DotMov)
        \/ endsWith(fileName, DotAvi) \/ endsWith(fileName, DotWmv) THEN "videos"
     ELSE "none"

\* message.attachments.forEach(...), from attachment i on, on one record
RECURSIVE countAttachments(_, _, _)
countAttachments(rec, attachments, i) ==
  IF i > Len(attachments) THEN rec
  ELSE LET cat == attachmentCategory(attachments[i])
       IN countAttachments(IF cat = "none" THEN rec ELSE incProp(rec, cat),
                           attachments, i + 1)

(***************************************************************************)
(* stats.json.                                                             *)
(***************************************************************************)
\* JSON.stringify(stats, null, 2): every entry with the properties its
\* object has, as key/value pairs
stringify(S) ==
  [i \in 1..Len(S) |->
     [id |-> S[i].id, props |-> {<<k, S[i].rec[k]>> : k \in DOMAIN S[i].rec}]]

\* JSON.parse(rawData)
parse(text) ==
  [i \in 1..Len(text) |->
     [id |-> text[i].id,
      rec |-> [k \in {p[1] : p \in text[i].props} |->
                 (CHOOSE p \in text[i].props : p[1] = k)[2]]]]

(***************************************************************************)
(* The inputs of the model: command texts, messages, the guild.            *)
(***************************************************************************)
PageSize == 100
TopN == 10

PingText         == <<"!","p","i","n","g">>
ZainText         == <<"!","z","a","i","n">>
ArjunText        == <<"!","a","r","j","u","n">>
FetchHistoryText == <<"!","f","e","t","c","h","H","i","s","t","o","r","y">>
StatsText        == <<"!","s","t","a","t","s">>

MPlain == Msg("u1", "alice", FALSE, <<"h","i">>, <<>>)
MPing  == Msg("u1", "alice", FALSE, PingText, <<>>)
MZain  == Msg("u2", "bob", FALSE, ZainText, <<>>)
MArjun == Msg("u3", "carol", FALSE, ArjunText, <<>>)
MFetch == Msg("u1", "alice", FALSE, FetchHistoryText, <<>>)
MStats == Msg("u2", "bob", FALSE, StatsText, <<>>)
\* an automated author, with a link and an image
MBot   == Msg("b1", "helper", TRUE,
              <<"h","t","t","p","s",":","/","/","b",".","i","o">>,
              <<File(<<"a",".","p","n","g">>)>>)
\* a.png, b.gif, c.mp4, d.png
MFour  == Msg("u2", "bob", FALSE, <<>>,
              <<File(<<"a",".","p","n","g">>), File(<<"b",".","g","i","f">>),
                File(<<"c",".","m","p","4">>), File(<<"d",".","p","n","g">>)>>)
\* two links in one text
MTwoLinks == Msg("u1", "alice", FALSE,
                 <<"h","t","t","p",":","/","/","a"," ",
                   "h","t","t","p","s",":","/","/","b">>, <<>>)
\* a renamed author, one link after text, upper-case extensions, a name
\* that is null, extensions the code does not know, a name that only looks
\* like an extension
MMixed == Msg("u2", "bobby", FALSE,
              <<"s","e","e","\n","h","t","t","p","s",":","/","/","x">>,
              <<File(<<"X",".","P","N","G">>), File(<<"n",".","t","x","t">>),
                NullFile, File(<<"v",".","M","o","V">>),
                File(<<"p",".","j","p","e","g">>),
                File(<<"w",".","w","m","v">>), File(<<"k",".","a","v","i">>),
                File(<<"q",".","J","P","G">>), File(<<"g","i","f">>),
                File(<<"a",".","p","n","g",".","t","x","t">>)>>)
\* an author who has left the guild since; a scheme with nothing after it
MLeft  == Msg("u3", "carol", FALSE,
              <<"h","t","t","p",":","/","/"," ","h","t","t","p","s">>, <<>>)

\* the messages a live messageCreate event carries in the model
LiveMessages == {MPlain, MPing, MFetch, MStats, MBot, MFour}

\* the messages of the channel histories, repeated in this order
HistCycle == <<MPlain, MFour, MBot, MTwoLinks, MLeft, MPing, MMixed,
               MZain, MStats, MArjun, MFetch>>

\* what the bot itself sends with channel.send / message.reply
BotReply(text) == Msg("b0", "statsbot", TRUE, text, <<>>)
PongText     == <<"P","o","n","g","!">>
HyderText    == <<"h","y","d","e","r">>
IshaanText   == <<"i","s","h","a","a","n">>
FinishedText == <<"F","i","n","i","s","h","e","d">>
NoDataText   == <<"N","o"," ","d","a","t","a">>
BoardText    == <<"*","*","S","e","r","v","e","r">>

\* every message a channel of the model can hold
AllMessages ==
  {HistCycle[i] : i \in 1..Len(HistCycle)} \cup LiveMessages
  \cup {BotReply(t) : t \in {PongText, HyderText, IshaanText, FinishedText,
                             NoDataText, BoardText}}

(***************************************************************************)
(* processMessage.                                                         *)
(***************************************************************************)
\* a buggy variant: links++ once per link of the text
messageIncrementsPerLink(message) ==
  LET zero == [images |-> 0, gifs |-> 0, videos |-> 0, links |-> 0]
      r2 == IF Len(message.attachments) > 0
              THEN countAttachments(zero, message.attachments, 1)
              ELSE zero
  IN [r2 EXCEPT !.links = Cardinality(linkMatchesFrom(message.content, 0))]

\* lines 69-92 on one message: how often each of images++, gifs++, videos++
\* and links++ runs
messageIncrements(message) ==
  LET zero == [images |-> 0, gifs |-> 0, videos |-> 0, links |-> 0]
      r2 == IF Len(message.attachments) > 0
              THEN countAttachments(zero, message.attachments, 1)
              ELSE zero
  IN IF linkRegexTest(message.content) THEN incProp(r2, "links") ELSE r2

\* messageIncrements, tabulated once for the messages of the model
Increments == [m \in AllMessages |-> messageIncrements(m)]

\* a buggy variant: the message is counted by initUserStats as well
applyMessageCountsTwice(S, message) ==
  LET S1 == initUserStats(S, message)
      userId == message.author.id
      r1 == incProp(incProp(getRec(S1, userId), "messages"), "messages")
      d == Increments[message]
  IN putRec(S1, userId,
            [r1 EXCEPT !.images = @ + d.images, !.gifs = @ + d.gifs,
                       !.videos = @ + d.videos, !.links = @ + d.links])

\* processMessage(message) from initUserStats up to the call of saveStats, as
\* a function of the stats it acts on
applyMessage(S, message) ==
  LET userId == message.author.id
      d == Increments[message]
  IN the({putRec(S1, userId,
                 [r1 EXCEPT !.images = @ + d.images, !.gifs = @ + d.gifs,
                            !.videos = @ + d.videos, !.links = @ + d.links]) :
            <<S1, r1>> \in {<<T, incProp(getRec(T, userId), "messages")>> :
                              T \in {initUserStats(S, message)}}})

\* a buggy variant: stats.json is written right after messages++, so that a
\* write that fails leaves the attachments and the link of the message out
processMessageSavesEarly(S, canWrite, message) ==
  IF message.author.bot
    THEN [stats |-> S, wrote |-> 0, saved |-> FALSE, threw |-> FALSE]
  ELSE IF canWrite
    THEN [stats |-> applyMessage(S, message), wrote |-> 1,
          saved |-> TRUE, threw |-> FALSE]
  ELSE [stats |-> LET S1 == initUserStats(S, message)
                  IN putRec(S1, message.author.id,
                            incProp(getRec(S1, message.author.id), "messages")),
        wrote |-> 1, saved |-> FALSE, threw |-> TRUE]

\* a buggy variant: the bot check is missing
processMessageCountsBots(S, canWrite, message) ==
  [stats |-> applyMessage(S, message), wrote |-> 1,
   saved |-> canWrite, threw |-> ~canWrite]

\* processMessage(message): the stats it leaves, the number of writeFileSync
\* calls it issued, whether the call replaced stats.json by
\* JSON.stringify(stats), and whether it threw (writeFileSync throws when
\* the disk rejects the write, after stats was changed)
processMessage(S, canWrite, message) ==
  IF message.author.bot
    THEN [stats |-> S, wrote |-> 0, saved |-> FALSE, threw |-> FALSE]
    ELSE [stats |-> applyMessage(S, message), wrote |-> 1,
          saved |-> canWrite, threw |-> ~canWrite]

\* a buggy variant: the file is truncated and nothing is written
savedFileEmpty(S) == [exists |-> TRUE, text |-> <<>>]

\* saveStats(): stats.json after a call of writeFileSync that succeeded
savedFile(S) == [exists |-> TRUE, text |-> stringify(S)]

\* guild.channels.cache, in its iteration order
Channels == <<[id |-> "c1", type |-> "GuildText"],
              [id |-> "c2", type |-> "GuildVoice"],
              [id |-> "c3", type |-> "GuildText"]>>
ChannelIx == 1..Len(Channels)
TextChannels == {c \in ChannelIx : Channels[c].type = "GuildText"}

\* the messageCreate events of the model: the live messages arrive in the
\* text channel c1, the !fetchHistory command in the chat of the voice
\* channel c2, which the backfill does not read
LiveEvents == {<<m, 1>> : m \in LiveMessages \ {MFetch}} \cup {<<MFetch, 2>>}

\* the channels live events arrive in
LiveChannels == {e[2] : e \in LiveEvents}

\* the number of messages the channels hold when the bot starts
Histories == {<<100, 0, 50>>, <<250, 0, 0>>}

\* the members of the guild: member.displayName and member.user.username;
\* u2 resolves to a member whose names are both empty
Members == [u \in {"u1", "u2"} |->
              IF u = "u1" THEN [displayName |-> "Alice A", username |-> "alice"]
                          ELSE [displayName |-> "", username |-> ""]]
Roster == DOMAIN Members

\* the contents stats.json can have when the bot starts: no file, or a file
\* of an older version that kept fewer counters
NoFile == [exists |-> FALSE, text |-> <<>>]
OlderSnapshot ==
  [exists |-> TRUE,
   text |-> stringify(<<
     [id |-> "u1", rec |-> [username |-> "alice", messages |-> 5, images |-> 5]],
     [id |-> "u3", rec |-> [username |-> "carol", messages |-> 2]],
     [id |-> "u2", rec |-> [username |-> "bob", messages |-> 9, images |-> 7]]>>)]
Snapshots == {NoFile, OlderSnapshot}

(***************************************************************************)
(* Array.prototype.sort as V8 runs it on an array shorter than 64: one     *)
(* run is counted (and reversed when strictly descending), the rest is     *)
(* inserted by binary insertion.  A comparator result of NaN counts as 0.  *)
(***************************************************************************)
\* Object.entries(stats): a fresh [userId, userStats] array per key; ref is
\* the identity of that array, userStats is the record object of stats itself
objectEntries(S) == [i \in 1..Len(S) |-> [ref |-> i, id |-> S[i].id]]

\* (a, b) => b[1][category] - a[1][category]; undefined - n is NaN
compareFn(S, category, a, b) ==
  LET ra == getRec(S, a.id)
      rb == getRec(S, b.id)
  IN IF category \in DOMAIN ra /\ category \in DOMAIN rb
       THEN rb[category] - ra[category]
       ELSE 0

reverseSeq(a) == [i \in 1..Len(a) |-> a[Len(a) + 1 - i]]

\* CountAndMakeRun: the length of the run that starts the array, from idx on
RECURSIVE runLength(_, _, _, _, _)
runLength(S, category, a, isDescending, idx) ==
  IF idx > Len(a) THEN idx - 1
  ELSE LET order == compareFn(S, category, a[idx], a[idx - 1])
       IN IF (isDescending /\ order >= 0) \/ (~isDescending /\ order < 0)
            THEN idx - 1
            ELSE runLength(S, category, a, isDescending, idx + 1)

\* the slot (0-based) binary insertion finds for pivot in a[left..right)
RECURSIVE insertionPoint(_, _, _, _, _, _)
insertionPoint(S, category, a, pivot, left, right) ==
  IF left >= right THEN left
  ELSE LET mid == left + ((right - left) \div 2)
       IN IF compareFn(S, category, pivot, a[mid + 1]) < 0
            THEN insertionPoint(S, category, a, pivot, left, mid)
            ELSE insertionPoint(S, category, a, pivot, mid + 1, right)

\* BinaryInsertionSort of the elements from start (0-based) on
RECURSIVE binaryInsertionSort(_, _, _, _)
binaryInsertionSort(S, category, a, start) ==
  IF start >= Len(a) THEN a
  ELSE LET pivot == a[start + 1]
           left == insertionPoint(S, category, a, pivot, 0, start)
           moved == [i \in 1..Len(a) |->
                       IF i <= left THEN a[i]
                       ELSE IF i = left + 1 THEN pivot
                       ELSE IF i <= start + 1 THEN a[i - 1]
                       ELSE a[i]]
       IN binaryInsertionSort(S, category, moved, start + 1)

\* [...entries].sort((a, b) => b[1][category] - a[1][category])
sortEntries(S, category, entries) ==
  IF Len(entries) < 2 THEN entries
  ELSE LET isDescending == compareFn(S, category, entries[2], entries[1]) < 0
           run == runLength(S, category, entries, isDescending, 3)
           made == IF isDescending
                     THEN reverseSeq(SubSeq(entries, 1, run))
                          \o SubSeq(entries, run + 1, Len(entries))
                     ELSE entries
       IN binaryInsertionSort(S, category, made, run)

(***************************************************************************)
(* The !stats leaderboard.                                                 *)
(***************************************************************************)
\* Array.prototype.indexOf with an array as the searched value: strict
\* equality of references; -1 when no element is that array
indexOf(arr, ref) ==
  IF \E i \in 1..Len(arr) : arr[i].ref = ref
    THEN (CHOOSE i \in 1..Len(arr) :
            arr[i].ref = ref /\ \A j \in 1..(i - 1) : arr[j].ref # ref) - 1
    ELSE -1

\* leaderboard.slice(0, 10)
slice(leaderboard, n) ==
  SubSeq(leaderboard, 1, IF Len(leaderboard) < n THEN Len(leaderboard) ELSE n)

\* a reference no element of arr holds: what a new array literal gets
newRef(arr) ==
  1 + (IF Len(arr) = 0 THEN 0
       ELSE CHOOSE r \in {arr[i].ref : i \in 1..Len(arr)} :
              \A i \in 1..Len(arr) : arr[i].ref <= r)

\* topTen.indexOf([userId, userStats]) + 1: the searched value is a new
\* array, not the element the loop destructured
rankLabel(topTen, entry) == indexOf(topTen, newRef(topTen)) + 1

\* userStats.username; undefined is the empty name (both are falsy)
storedName(S, userId) ==
  LET rec == getRec(S, userId)
  IN IF "username" \in DOMAIN rec THEN rec.username ELSE ""

\* member.displayName || member.user.username
memberName(userId) ==
  IF Members[userId].displayName # ""
    THEN Members[userId].displayName
    ELSE Members[userId].username

\* userStats[category] as the template prints it
countOf(S, userId, category) ==
  LET rec == getRec(S, userId)
  IN IF category \in DOMAIN rec
       THEN [defined |-> TRUE, value |-> rec[category]]
       ELSE [defined |-> FALSE, value |-> 0]

\* one line of text: lines 221-225
renderLine(S, topTen, entry, category, displayName) ==
  [rank |-> rankLabel(topTen, entry),
   name |-> IF displayName = "" THEN entry.id ELSE displayName,
   count |-> countOf(S, entry.id, category)]

\* the leaderboard task from its position t on, up to the next
\* members.fetch(userId) it has to await or to the end of the last category
RECURSIVE renderFrom(_, _, _)
renderFrom(t, S, members) ==
  IF t.cat > Len(Categories) THEN [t EXCEPT !.pc = "send"]
  ELSE LET category == Categories[t.cat]
           topTen == slice(t.boards[t.cat], TopN)
       IN IF t.pos > Len(topTen)
            THEN renderFrom([t EXCEPT !.texts = Append(@, t.text), !.text = <<>>,
                                      !.cat = @ + 1, !.pos = 1], S, members)
            ELSE LET entry == topTen[t.pos]
                 IN IF entry.id \in members
                      THEN renderFrom(
                             [t EXCEPT !.text = Append(@,
                                          renderLine(S, topTen, entry, category,
                                                     memberName(entry.id))),
                                       !.pos = @ + 1], S, members)
                      ELSE [t EXCEPT !.pc = "member",
                                     !.displayName = storedName(S, entry.id)]

\* of: the value of stats the leaderboards were sorted from
IdleBoard == [pc |-> "idle", src |-> 0, of |-> <<>>, boards |-> <<>>, cat |-> 1,
              pos |-> 1, text |-> <<>>, texts |-> <<>>, displayName |-> ""]

\* lines 178-188: the five sorted leaderboards of a !stats command
startBoard(S, src) ==
  [IdleBoard EXCEPT !.src = src, !.of = S,
     !.boards = [i \in 1..Len(Categories) |->
                   sortEntries(S, Categories[i], objectEntries(S))]]

(***************************************************************************)
(* Channel histories and the backfill.                                     *)
(***************************************************************************)
\* the number of messages channel c holds
total(chans, c) == chans[c].n + Len(chans[c].appended)

\* the message at position p of channel c (1 is the oldest); the position
\* stands for the message id
msgAt(chans, c, p) ==
  IF p <= chans[c].n
    THEN HistCycle[((p + c) % Len(HistCycle)) + 1]
    ELSE chans[c].appended[p - chans[c].n]

post(chans, c, m) == [chans EXCEPT ![c].appended = Append(@, m)]

\* channel.messages.fetch({limit, before}): the positions of the page,
\* newest first; before = 0 stands for no `before` option
pageTop(chans, c, before) ==
  IF before = 0 \/ before > total(chans, c) THEN total(chans, c) ELSE before - 1
pageSizeOf(chans, c, before, limit) ==
  IF pageTop(chans, c, before) < limit THEN pageTop(chans, c, before) ELSE limit
fetchPage(chans, c, before, limit) ==
  [k \in 1..pageSizeOf(chans, c, before, limit) |->
     pageTop(chans, c, before) - k + 1]

\* the callback of line 121 on element k of the page, unless an earlier call
\* threw (the throw ends forEach)
processElement(acc, canWrite, chans, c, page, k) ==
  the({IF a.threw THEN a
       ELSE the({[stats |-> r.stats, wrote |-> a.wrote + r.wrote,
                  saved |-> a.saved \/ r.saved, threw |-> r.threw] :
                   r \in {processMessage(a.stats, canWrite,
                                         msgAt(chans, c, page[k]))}}) :
         a \in {acc}})

\* the elements lo..hi of the page in their order: the first half of the
\* range, then the second half on what the first half left
RECURSIVE processRange(_, _, _, _, _, _, _)
processRange(acc, canWrite, chans, c, page, lo, hi) ==
  IF lo > hi THEN acc
  ELSE IF lo = hi THEN processElement(acc, canWrite, chans, c, page, lo)
  ELSE the({processRange(half, canWrite, chans, c, page,
                         ((lo + hi) \div 2) + 1, hi) :
              half \in {processRange(acc, canWrite, chans, c, page,
                                     lo, (lo + hi) \div 2)}})

\* fetchedMessages.forEach((msg) => processMessage(msg)) from element k on:
\* stops at the first processMessage that throws.  The disk does not change
\* while the callback runs, so the file holds what the last call saved.
processPage(acc, canWrite, chans, c, page, k) ==
  processRange(acc, canWrite, chans, c, page, k, Len(page))

\* a buggy variant: the crawl stops at the first channel that ends
nextTextChannelNone(c) == 0

\* the next text channel of guild.channels.cache after index c, 0 for none
nextTextChannel(c) ==
  IF \E j \in TextChannels : j > c
    THEN CHOOSE j \in TextChannels : j > c /\ \A i \in TextChannels : i > c => j <= i
    ELSE 0

\* a buggy variant: the loop of a channel resumes from the cursor the last
\* loop left
carriedCursor(lastMessageId) == lastMessageId

\* line 110: let lastMessageId = null (0 stands for null)
newCursor(lastMessageId) == 0

\* a buggy variant: the cursor is the newest message of the page
newestOf(page) == page[1]

\* line 124: fetchedMessages.last().id, the oldest message of the page
oldestOf(page) == page[Len(page)]

\* a buggy variant: a page of exactly `limit` messages ends the loop
lastPageInclusive(size, limit) == size <= limit

\* line 128: fewer messages than the limit were returned
lastPage(size, limit) == size < limit

RECURSIVE sumMessages(_)
sumMessages(S) ==
  IF Len(S) = 0 THEN 0
  ELSE (IF "messages" \in DOMAIN S[1].rec THEN S[1].rec.messages ELSE 0)
       + sumMessages(Tail(S))

(***************************************************************************)
(* State.                                                                  *)
(***************************************************************************)
VARIABLES
  stats,         \* the object stats
  statsFile,     \* stats.json
  diskOk,        \* whether writeFileSync succeeds at present
  channels,      \* per channel: n messages of history, then those appended
  members,       \* the keys of guild.members.cache
  backfill,      \* the !fetchHistory handler in flight: pc, src, c,
                 \* lastMessageId, fetchedCount
  crawl,         \* a record of the backfill run: per channel its state and
                 \* its fetch calls; the sum of messages at its start; the
                 \* live messages counted since
  board,         \* the !stats handler in flight
  statsMessage,  \* the leaderboards of the last statsMessage sent
  live,          \* messageCreate events delivered
  faults,        \* environment faults so far
  writes,        \* writeFileSync calls so far
  failedWrites   \* those of them that threw

vars == <<stats, statsFile, diskOk, channels, members, backfill, crawl, board,
          statsMessage, live, faults, writes, failedWrites>>

IdleBackfill == [pc |-> "idle", src |-> 0, c |-> 0, lastMessageId |-> 0,
                 fetchedCount |-> 0]

\* base: stats when the run began; prev: whether the run before this one
\* began with an empty stats, crawled every text channel to Done with no
\* failure and no live message counted, and the messages each channel held
NoCrawl == [state |-> [c \in ChannelIx |-> "Idle"],
            log |-> [c \in ChannelIx |-> <<>>],
            baseTotal |-> 0, liveSince |-> 0, runs |-> 0, base |-> <<>>,
            prev |-> [clean |-> FALSE, held |-> [c \in ChannelIx |-> 0]]]

\* what a new run keeps of the run cr, whose handler is at bf
runSummary(cr, bf) ==
  [clean |-> /\ bf.pc = "done"
             /\ Len(cr.base) = 0
             /\ cr.liveSince = 0
             /\ \A c \in TextChannels :
                  /\ cr.state[c] = "Done"
                  /\ \A i \in 1..Len(cr.log[c]) : cr.log[c][i].result = "page",
   held |-> [c \in ChannelIx |->
               IF Len(cr.log[c]) > 0 THEN cr.log[c][1].total ELSE 0]]

\* lines 9-15, and the world the bot wakes up in
Init ==
  /\ statsFile \in Snapshots
  /\ stats = (IF statsFile.exists THEN parse(statsFile.text) ELSE <<>>)
  /\ diskOk = TRUE
  /\ \E h \in Histories :
       channels = [c \in ChannelIx |-> [n |-> h[c], appended |-> <<>>]]
  /\ members = {}
  /\ backfill = IdleBackfill
  /\ crawl = NoCrawl
  /\ board = IdleBoard
  /\ statsMessage = <<>>
  /\ live = 0
  /\ faults = 0
  /\ writes = 0
  /\ failedWrites = 0

(***************************************************************************)
(* messageCreate (lines 148-247), up to its first await.                   *)
(***************************************************************************)
\* whether the handler reaches processMessage(message) at line 174
reachesProcessMessage(message) ==
  /\ message.content # PingText
  /\ message.content # ZainText
  /\ message.content # ArjunText
  /\ message.content # FetchHistoryText

\* the text the handler sends back at once for a basic command
commandReply(message) ==
  IF message.content = PingText THEN PongText
  ELSE IF message.content = ZainText THEN HyderText
  ELSE IshaanText

\* the event is dispatched for a message the channel already holds; the
\* author is a member of the guild, which discord.js caches with the message
Delivered(m, c) ==
  /\ live < MaxLive
  /\ <<m, c>> \in LiveEvents
  /\ live' = live + 1
  /\ members' = members \cup ({m.author.id} \cap Roster)

\* lines 150-158
BasicCommand(m, c) ==
  /\ m.content \in {PingText, ZainText, ArjunText}
  /\ Delivered(m, c)
  /\ channels' = post(post(channels, c, m), c, BotReply(commandReply(m)))
  /\ UNCHANGED <<stats, statsFile, diskOk, backfill, crawl, board, statsMessage,
                 faults, writes,
                 failedWrites>>

\* lines 161-167: the handler suspends in guild.members.fetch()
FetchHistoryCommand(m, c) ==
  /\ m.content = FetchHistoryText
  /\ backfill.pc \in {"idle", "done"}
  /\ Delivered(m, c)
  /\ channels' = post(channels, c, m)
  /\ backfill' = [backfill EXCEPT !.pc = "members", !.src = c, !.c = 0,
                                  !.fetchedCount = 0]
  /\ crawl' = [NoCrawl EXCEPT !.baseTotal = sumMessages(stats),
                              !.base = stats,
                              !.runs = crawl.runs + 1,
                              !.prev = runSummary(crawl, backfill)]
  /\ UNCHANGED <<stats, statsFile, diskOk, board, statsMessage, faults, writes,
                 failedWrites>>

\* lines 232-245: the five texts of statsMessage
sendBoard(t) == t.texts

\* lines 174-246 up to the first await: processMessage, then for !stats the
\* sorted leaderboards and the lines of every member the cache holds
LiveMessage(m, c) ==
  /\ reachesProcessMessage(m)
  /\ m.content = StatsText => board.pc = "idle"
  /\ Delivered(m, c)
  /\ LET r == processMessage(stats, diskOk, m)
         t == renderFrom(startBoard(r.stats, c), r.stats, members')
         isStats == m.content = StatsText /\ ~r.threw
     IN /\ stats' = r.stats
        /\ statsFile' = (IF r.saved THEN savedFile(r.stats) ELSE statsFile)
        /\ writes' = writes + r.wrote
        /\ failedWrites' = failedWrites + (IF r.threw THEN 1 ELSE 0)
        /\ crawl' = [crawl EXCEPT !.liveSince = @ + r.wrote]
        /\ IF ~isStats
             THEN /\ channels' = post(channels, c, m)
                  /\ UNCHANGED <<board, statsMessage>>
           ELSE IF Len(r.stats) = 0
             THEN /\ channels' = post(post(channels, c, m), c, BotReply(NoDataText))
                  /\ UNCHANGED <<board, statsMessage>>
           ELSE IF t.pc = "send"
             THEN /\ channels' = post(post(channels, c, m), c, BotReply(BoardText))
                  /\ statsMessage' = sendBoard(t)
                  /\ board' = [t EXCEPT !.pc = "idle"]
           ELSE /\ channels' = post(channels, c, m)
                /\ board' = t
                /\ UNCHANGED statsMessage
  /\ UNCHANGED <<diskOk, backfill, faults>>

MessageCreate(m, c) ==
  \/ BasicCommand(m, c)
  \/ FetchHistoryCommand(m, c)
  \/ LiveMessage(m, c)

(***************************************************************************)
(* The !fetchHistory handler after its awaits (lines 167-170, 99-140).     *)
(***************************************************************************)
\* the loop of channel c has ended: the for loop goes on to the next text
\* channel and suspends in its first fetch, or the crawl is over and the
\* handler sends its notice
leaveChannel(c, how, entry) ==
  LET j == nextTextChannel(c)
      ended == [crawl EXCEPT !.state[c] = how, !.log[c] = Append(@, entry)]
  IN IF j = 0
       THEN /\ backfill' = [backfill EXCEPT !.pc = "done"]
            /\ crawl' = ended
            /\ channels' = post(channels, backfill.src, BotReply(FinishedText))
       ELSE /\ backfill' = [backfill EXCEPT
                             !.c = j,
                             !.lastMessageId = newCursor(backfill.lastMessageId),
                             !.fetchedCount = 0]
            /\ crawl' = [ended EXCEPT !.state[j] = "Fetching"]
            /\ UNCHANGED channels

\* guild.members.fetch() resolves: every member is cached, and the crawl
\* suspends in the first fetch of the first text channel
MembersFetched ==
  /\ backfill.pc = "members"
  /\ members' = members \cup Roster
  /\ LET j == nextTextChannel(0)
     IN IF j = 0
          THEN /\ backfill' = [backfill EXCEPT !.pc = "done"]
               /\ channels' = post(channels, backfill.src, BotReply(FinishedText))
               /\ UNCHANGED crawl
          ELSE /\ backfill' = [backfill EXCEPT
                                !.pc = "fetching", !.c = j,
                                !.lastMessageId = newCursor(backfill.lastMessageId)]
               /\ crawl' = [crawl EXCEPT !.state[j] = "Fetching"]
               /\ UNCHANGED channels
  /\ UNCHANGED <<stats, statsFile, diskOk, board, statsMessage, live, faults,
                 writes,
                 failedWrites>>

\* guild.members.fetch() rejects: the handler ends with the rejection
MembersFetchFails ==
  /\ backfill.pc = "members"
  /\ faults < MaxFaults
  /\ faults' = faults + 1
  /\ backfill' = [backfill EXCEPT !.pc = "idle"]
  /\ UNCHANGED <<stats, statsFile, diskOk, channels, members, crawl, board,
                 statsMessage, live, writes,
                 failedWrites>>

\* channel.messages.fetch(options) resolves with a page: lines 119-128
PageFetched ==
  /\ backfill.pc = "fetching"
  /\ UNCHANGED <<diskOk, members, board, statsMessage, live, faults>>
  /\ \E page \in {fetchPage(channels, backfill.c, backfill.lastMessageId,
                               PageSize)} :
     \E acc \in {processPage([stats |-> stats, wrote |-> 0, saved |-> FALSE,
                               threw |-> FALSE], diskOk, channels, backfill.c,
                              page, 1)} :
     LET c == backfill.c
         before == backfill.lastMessageId
         size == Len(page)
         call == [before |-> before, size |-> size,
                  total |-> total(channels, c), result |-> "page"]
     IN /\ stats' = acc.stats
        /\ statsFile' = (IF acc.saved THEN savedFile(acc.stats) ELSE statsFile)
        /\ writes' = writes + acc.wrote
        /\ failedWrites' = failedWrites + (IF acc.threw THEN 1 ELSE 0)
        /\ IF size = 0
             THEN leaveChannel(c, "Done", call)
           ELSE IF acc.threw
             THEN leaveChannel(c, "Aborted", [call EXCEPT !.result = "threw"])
           ELSE IF lastPage(size, PageSize)
             THEN leaveChannel(c, "Done", call)
           ELSE /\ backfill' = [backfill EXCEPT !.lastMessageId = oldestOf(page),
                                                !.fetchedCount = @ + size]
                /\ crawl' = [crawl EXCEPT !.log[c] = Append(@, call)]
                /\ UNCHANGED channels

\* channel.messages.fetch(options) rejects: lines 129-132
PageFetchFails ==
  /\ backfill.pc = "fetching"
  /\ faults < MaxFaults
  /\ faults' = faults + 1
  /\ leaveChannel(backfill.c, "Aborted",
                  [before |-> backfill.lastMessageId, size |-> 0,
                   total |-> total(channels, backfill.c), result |-> "error"])
  /\ UNCHANGED <<stats, statsFile, diskOk, members, board, statsMessage, live,
                 writes,
                 failedWrites>>

(***************************************************************************)
(* The !stats handler after an await of members.fetch(userId).             *)
(***************************************************************************)
\* the handler goes on from the line of the entry it fetched the member for
resumeBoard(displayName, cached) ==
  LET category == Categories[board.cat]
      topTen == slice(board.boards[board.cat], TopN)
      entry == topTen[board.pos]
      line == renderLine(stats, topTen, entry, category, displayName)
      t == renderFrom([board EXCEPT !.pc = "run", !.text = Append(@, line),
                                    !.pos = @ + 1], stats, cached)
  IN /\ members' = cached
     /\ IF t.pc = "send"
          THEN /\ statsMessage' = sendBoard(t)
               /\ channels' = post(channels, board.src, BotReply(BoardText))
               /\ board' = [t EXCEPT !.pc = "idle"]
          ELSE /\ board' = t
               /\ UNCHANGED <<statsMessage, channels>>

awaitedUser == slice(board.boards[board.cat], TopN)[board.pos].id

\* the member is found: lines 204, 217-219
MemberFetched ==
  /\ board.pc = "member"
  /\ awaitedUser \in Roster
  /\ resumeBoard(memberName(awaitedUser), members \cup {awaitedUser})
  /\ UNCHANGED <<stats, statsFile, diskOk, backfill, crawl, live, faults, writes,
                 failedWrites>>

\* a buggy variant: the stored name stays, as for any other error
unknownMemberKeepsStored(displayName) == displayName

\* lines 207-209: displayName after the catch when error.code === 10007
unknownMember(displayName) == "Unknown User"

\* the user has left the guild: error.code === 10007, lines 205-209
MemberUnknown ==
  /\ board.pc = "member"
  /\ awaitedUser \notin Roster
  /\ resumeBoard(unknownMember(board.displayName), members)
  /\ UNCHANGED <<stats, statsFile, diskOk, backfill, crawl, live, faults, writes,
                 failedWrites>>

\* any other error: lines 210-212, the stored name stays
MemberFetchFails ==
  /\ board.pc = "member"
  /\ faults < MaxFaults
  /\ faults' = faults + 1
  /\ resumeBoard(board.displayName, members)
  /\ UNCHANGED <<stats, statsFile, diskOk, backfill, crawl, live, writes,
                 failedWrites>>

(***************************************************************************)
(* The disk.                                                               *)
(***************************************************************************)
DiskFails ==
  /\ diskOk
  /\ faults < MaxFaults
  /\ diskOk' = FALSE
  /\ faults' = faults + 1
  /\ UNCHANGED <<stats, statsFile, channels, members, backfill, crawl, board,
                 statsMessage, live, writes,
                 failedWrites>>

DiskRecovers ==
  /\ ~diskOk
  /\ diskOk' = TRUE
  /\ UNCHANGED <<stats, statsFile, channels, members, backfill, crawl, board,
                 statsMessage, live, faults, writes,
                 failedWrites>>

Next ==
  \/ \E e \in LiveEvents : MessageCreate(e[1], e[2])
  \/ MembersFetched
  \/ MembersFetchFails
  \/ PageFetched
  \/ PageFetchFails
  \/ MemberFetched
  \/ MemberUnknown
  \/ MemberFetchFails
  \/ DiskFails
  \/ DiskRecovers

Spec == Init /\ [][Next]_vars

(***************************************************************************)
(* Properties.                                                             *)
(***************************************************************************)
\* the value of counter f of author u, 0 when the record or the counter is
\* missing
counter(S, u, f) ==
  IF hasKey(S, u) /\ f \in DOMAIN getRec(S, u) THEN getRec(S, u)[f] ELSE 0

\* S2 holds the records of S in the same order, those of authors other than
\* u unchanged, and at most a new last record for u
onlyTouches(S, S2, u) ==
  /\ Len(S2) = Len(S) + (IF hasKey(S, u) THEN 0 ELSE 1)
  /\ \A i \in 1..Len(S) : S2[i].id = S[i].id /\ (S[i].id # u => S2[i] = S[i])
  /\ S2[Len(S2)].id = u \/ hasKey(S, u)

\* the message a live event of this step delivers in channel c
delivered(c) == channels'[c].appended[Len(channels[c].appended) + 1]

\* this step handles a live event in channel c
liveStep(c) ==
  /\ live' = live + 1
  /\ Len(channels'[c].appended) > Len(channels[c].appended)

\* the messages of the model with no attachment and no link in the text
PlainMessages == {MPlain, MPing, MZain, MArjun, MFetch, MStats, MLeft}

\* what the extension rule gives for every attachment name of the model
ExpectedKind ==
  [a \in {File(<<"a",".","p","n","g">>), File(<<"d",".","p","n","g">>),
          File(<<"X",".","P","N","G">>), File(<<"p",".","j","p","e","g">>),
          File(<<"q",".","J","P","G">>)} |-> "images"]
  @@ [a \in {File(<<"b",".","g","i","f">>)} |-> "gifs"]
  @@ [a \in {File(<<"c",".","m","p","4">>), File(<<"v",".","M","o","V">>),
             File(<<"w",".","w","m","v">>), File(<<"k",".","a","v","i">>)} |-> "videos"]
  @@ [a \in {File(<<"n",".","t","x","t">>), NullFile, File(<<"g","i","f">>),
             File(<<"a",".","p","n","g",".","t","x","t">>)} |-> "none"]

\* the number of attachments of m the rule assigns to counter f
expectedOf(m, f) ==
  Cardinality({i \in 1..Len(m.attachments) : ExpectedKind[m.attachments[i]] = f})

\* the messages of the model whose text holds at least one link
LinkMessages == {MTwoLinks, MMixed}

\* C1: a message of an automated author changes nothing: processMessage
\* returns the stats it was given and issues no write, whatever the stats and
\* the disk, and a live event for such a message leaves stats, stats.json and
\* the number of writes as they were
C1_BotMessageChangesNothing ==
  /\ [](\A m \in AllMessages : m.author.bot =>
          \A canWrite \in BOOLEAN :
            LET r == processMessage(stats, canWrite, m)
            IN r.stats = stats /\ r.wrote = 0 /\ ~r.saved /\ ~r.threw)
  /\ [][\A c \in LiveChannels :
          (liveStep(c) /\ delivered(c).author.bot) =>
            (stats' = stats /\ statsFile' = statsFile /\ writes' = writes)]_vars

\* a live message of the automated author has been handled, and no write was
\* ever issued
C1_Witness ==
  /\ \E i \in 1..Len(channels[1].appended) : channels[1].appended[i] = MBot
  /\ writes = 0
  /\ stats = (IF statsFile.exists THEN parse(statsFile.text) ELSE <<>>)

\* C2: a live event changes the counters exactly as line 121 of the backfill
\* changes them for the same message, command texts included
C2_LiveCountsLikeBackfill ==
  [][\A c \in LiveChannels :
       liveStep(c) => stats' = processMessage(stats, diskOk, delivered(c)).stats]_vars

\* the positions a fetch call returned: from pageHi down to pageLo
pageHi(call) == IF call.before = 0 THEN call.total ELSE call.before - 1
pageLo(call) == pageHi(call) - call.size + 1

\* the number of messages of channel c at positions lo..hi whose author is
\* not automated
nonBots(c, lo, hi) ==
  Cardinality({p \in lo..hi : ~msgAt(channels, c, p).author.bot})

\* the loop of channel c is over
ended(c) == crawl.state[c] \in {"Done", "Aborted"}

\* no fetch call of channel c ended as `how`
never(c, how) == \A i \in 1..Len(crawl.log[c]) : crawl.log[c][i].result # how

\* the number of messages channel c held at its first fetch
heldBy(c) == crawl.log[c][1].total

\* channel c ended Done after floor(N/100)+1 calls, full pages first and the
\* rest last, and every position 1..N is in exactly one page
exhausted(c) ==
  LET L == crawl.log[c]
      N == heldBy(c)
  IN /\ crawl.state[c] = "Done"
     /\ Len(L) = (N \div 100) + 1
     /\ \A i \in 1..Len(L) :
          L[i].size = (IF i <= N \div 100 THEN 100 ELSE N % 100)
     /\ \A p \in 1..N :
          Cardinality({i \in 1..Len(L) : pageLo(L[i]) <= p /\ p <= pageHi(L[i])}) = 1

\* the messages counted since the run began are those of the channels that
\* are not automated, and the live ones
countedAll ==
  sumMessages(stats) =
    crawl.baseTotal + crawl.liveSince
    + Cardinality({x \in UNION {{<<c, p>> : p \in 1..heldBy(c)} : c \in TextChannels} :
                     ~msgAt(channels, x[1], x[2]).author.bot})

C4_EveryRecordHasAllCounters ==
  \A i \in 1..Len(stats) : \A f \in CategorySet :
    f \in DOMAIN stats[i].rec /\ stats[i].rec[f] \in Nat

\* C5: a message of a human author with no attachment and no link adds 1 to
\* the author's messages, leaves the author's other four counters at their
\* value and leaves every other record as it is
C5_PlainMessageCountsOnce ==
  \A m \in PlainMessages :
    LET u == m.author.id
        S2 == processMessage(stats, diskOk, m).stats
    IN /\ ~m.author.bot /\ Len(m.attachments) = 0
       /\ counter(S2, u, "messages") = counter(stats, u, "messages") + 1
       /\ \A f \in CategorySet \ {"messages"} : counter(S2, u, f) = counter(stats, u, f)
       /\ onlyTouches(stats, S2, u)

\* the plain live message of u1 was counted, from no file: one record, one
\* message
C5_Witness ==
  /\ \E i \in 1..Len(channels[1].appended) : channels[1].appended[i] = MPlain
  /\ stats = <<[id |-> "u1",
                rec |-> [username |-> "alice", messages |-> 1, images |-> 0,
                         gifs |-> 0, videos |-> 0, links |-> 0]]>>

\* C6: every attachment adds 1 to the counter its lower-cased extension names
\* (images for .png .jpg .jpeg, gifs for .gif, videos for .mp4 .mov .avi
\* .wmv) and nothing otherwise, and the attachments of a message add up:
\* a.png, b.gif, c.mp4, d.png give images+2, gifs+1, videos+1, links+0
C6_AttachmentsCountByExtension ==
  /\ \A m \in AllMessages : ~m.author.bot =>
       LET u == m.author.id
           S2 == processMessage(stats, diskOk, m).stats
       IN \A f \in {"images", "gifs", "videos"} :
            counter(S2, u, f) = counter(stats, u, f) + expectedOf(m, f)
  /\ LET S4 == processMessage(stats, diskOk, MFour).stats
     IN /\ counter(S4, "u2", "images") = counter(stats, "u2", "images") + 2
        /\ counter(S4, "u2", "gifs") = counter(stats, "u2", "gifs") + 1
        /\ counter(S4, "u2", "videos") = counter(stats, "u2", "videos") + 1
        /\ counter(S4, "u2", "links") = counter(stats, "u2", "links")

\* the first page of 100 messages of a channel of 250 was counted from no
\* file: u2 wrote the message of four attachments and the one of ten
C6_Witness ==
  /\ Len(crawl.log[1]) = 1 /\ crawl.log[1][1].size = 100
  /\ crawl.baseTotal = 0 /\ crawl.liveSince = 0
  /\ counter(stats, "u2", "gifs") > 0
  /\ counter(stats, "u2", "images") > counter(stats, "u2", "videos")
  /\ counter(stats, "u2", "videos") > counter(stats, "u2", "gifs")

\* C7: a processed message adds 1 to links when its text holds at least one
\* http:// or https:// link and 0 otherwise, however many links it holds and
\* whatever was processed before
C7_LinkPresence ==
  \A m \in AllMessages : ~m.author.bot =>
    LET u == m.author.id
        S2 == processMessage(stats, diskOk, m).stats
    IN counter(S2, u, "links") =
         counter(stats, u, "links") + (IF m \in LinkMessages THEN 1 ELSE 0)

\* two pages were counted from no file: u1, whose only messages with a link
\* hold two links each, has fewer links than messages
C7_Witness ==
  /\ Len(crawl.log[1]) = 2
  /\ crawl.baseTotal = 0 /\ crawl.liveSince = 0
  /\ counter(stats, "u1", "links") > 1
  /\ 2 * counter(stats, "u1", "links") < counter(stats, "u1", "messages")

\* C8: line k of every leaderboard of a statsMessage carries the rank k
C8_LinesCarryTheirRank ==
  \A i \in 1..Len(statsMessage) :
    \A k \in 1..Len(statsMessage[i]) : statsMessage[i][k].rank = k

\* C9: every leaderboard of a !stats command holds the records of stats, and
\* of two records that both have the counter the one with the larger count
\* comes first, and of two with equal counts the one stats lists first
C9_BoardsSortedAndStable ==
  \A i \in 1..Len(board.boards) :
    LET B == board.boards[i]
        S == board.of
        f == Categories[i]
    IN /\ Len(B) = Len(S)
       /\ {B[k].id : k \in 1..Len(B)} = {S[k].id : k \in 1..Len(S)}
       /\ \A p, q \in 1..Len(B) :
            (/\ p < q
             /\ f \in DOMAIN getRec(S, B[p].id)
             /\ f \in DOMAIN getRec(S, B[q].id))
            => /\ getRec(S, B[p].id)[f] >= getRec(S, B[q].id)[f]
               /\ getRec(S, B[p].id)[f] = getRec(S, B[q].id)[f]
                    => keyIndex(S, B[p].id) < keyIndex(S, B[q].id)

\* the messages counted since the run began are those of the pages the
\* fetch calls returned that are not automated, and the live ones
countedPages ==
  sumMessages(stats) =
    crawl.baseTotal + crawl.liveSince
    + Cardinality(UNION {UNION {
        {<<c, i, p>> : p \in {x \in pageLo(crawl.log[c][i])..pageHi(crawl.log[c][i]) :
                                ~msgAt(channels, c, x).author.bot}} :
          i \in {k \in 1..Len(crawl.log[c]) : crawl.log[c][k].result = "page"}} :
        c \in TextChannels})

\* C10: a channel is Aborted exactly when its last fetch call failed; while
\* no write fails, what the pages fetched so far added to the counters is in
\* stats, before and after an abort; and when the crawl is over every text
\* channel has been fetched at least once, first without a `before` cursor
C10_AbortStopsOneChannelOnly ==
  /\ \A c \in TextChannels :
       crawl.state[c] = "Aborted" <=>
         /\ Len(crawl.log[c]) > 0
         /\ crawl.log[c][Len(crawl.log[c])].result \in {"error", "threw"}
  /\ (crawl.runs > 0 /\ \A c \in TextChannels : never(c, "threw")) => countedPages
  /\ backfill.pc = "done" =>
       \A c \in TextChannels :
         ended(c) /\ Len(crawl.log[c]) > 0 /\ crawl.log[c][1].before = 0

\* the second fetch of the first channel failed after a page of 100 was
\* counted; the last channel was crawled to its end all the same
C10_Witness ==
  /\ backfill.pc = "done"
  /\ crawl.state[1] = "Aborted"
  /\ [i \in 1..Len(crawl.log[1]) |-> crawl.log[1][i].result] = <<"page", "error">>
  /\ crawl.log[1][1].size = 100
  /\ crawl.state[3] = "Done"
  /\ [i \in 1..Len(crawl.log[3]) |-> crawl.log[3][i].size] = <<50>>
  /\ sumMessages(stats) = crawl.baseTotal + crawl.liveSince
                          + nonBots(1, pageLo(crawl.log[1][1]), pageHi(crawl.log[1][1]))
                          + nonBots(3, 1, 50)

\* this step issued a writeFileSync that the disk rejected
failedWrite == failedWrites' > failedWrites

\* this step is a step of the backfill: a fetch call of the crawl returned
backfillStep ==
  /\ backfill.pc = "fetching"
  /\ Len(crawl'.log[backfill.c]) = Len(crawl.log[backfill.c]) + 1

\* C11: a failed write of stats.json is fatal for the handler whose
\* processMessage issued it, in a live event and in a backfill page alike:
\* the handler does nothing more (no reply, no leaderboard, no further fetch,
\* no notice that the backfill has finished), and stats keeps the message
\* whose write failed
C11_WriteFailureIsFatal ==
  [][failedWrite =>
       /\ sumMessages(stats') = sumMessages(stats) + 1
       /\ backfillStep => backfill'.pc \notin {"fetching", "done"}
       /\ ~backfillStep =>
            /\ board' = board /\ statsMessage' = statsMessage
            /\ \E m \in LiveMessages : channels' = post(channels, 1, m)]_vars

\* the line the leaderboard task b holds for entry pos of category cat, once
\* it is past that entry
lineAt(b, cat, pos) ==
  IF b.cat > cat \/ b.pc = "idle" THEN b.texts[cat][pos] ELSE b.text[pos]

\* this step resumes the !stats handler after members.fetch(userId)
boardResumes == board.pc = "member" /\ board' # board

\* C12: when members.fetch(userId) fails with code 10007 (the author has left
\* the guild), the line of that author carries the name "Unknown User" and
\* the build goes on: to the next fetch, or to the end, where statsMessage is
\* sent with that line in it
C12_UnknownUserLabel ==
  [][(boardResumes /\ awaitedUser \notin Roster /\ faults' = faults) =>
       /\ lineAt(board', board.cat, board.pos).name = "Unknown User"
       /\ board'.pc \in {"member", "idle"}
       /\ board'.pc = "member" =>
            (board'.cat > board.cat \/ board'.pos > board.pos)
       /\ board'.pc = "idle" =>
            /\ statsMessage' = board'.texts
            /\ Len(statsMessage') = Len(Categories)
            /\ statsMessage'[board.cat][board.pos].name = "Unknown User"]_vars

\* a statsMessage was sent, with no fault of the environment, whose messages
\* leaderboard names u3, who has left the guild, "Unknown User"
C12_Witness ==
  /\ faults = 0
  /\ board.pc = "idle"
  /\ Len(statsMessage) = Len(Categories)
  /\ \E k \in 1..Len(statsMessage[1]) :
       /\ board.boards[1][k].id = "u3"
       /\ statsMessage[1][k].name = "Unknown User"

\* the record rec without the properties of D
without(rec, D) == [k \in (DOMAIN rec) \ D |-> rec[k]]

\* one message per author name of the model: initUserStats reads the id and
\* the username of the author only
RepairMessages == {MPlain, MStats, MMixed, MLeft}

\* S and T hold the same records with the same properties and values
sameStore(S, T) ==
  /\ Len(S) = Len(T)
  /\ \A j \in 1..Len(S) :
       /\ S[j].id = T[j].id
       /\ DOMAIN S[j].rec = DOMAIN T[j].rec
       /\ \A k \in DOMAIN S[j].rec : S[j].rec[k] = T[j].rec[k]

\* C13: for the record of any author of stats with any subset of the five
\* counters removed, initUserStats sets exactly the missing counters to 0,
\* keeps the value of every counter that is present and touches no other
\* record; a second call changes nothing
C13_RepairIsIdempotent ==
  \A i \in 1..Len(stats) : \A D \in SUBSET CategorySet :
    \A m \in {x \in RepairMessages : x.author.id = stats[i].id} :
      LET u == stats[i].id
          S0 == putRec(stats, u, without(stats[i].rec, D))
          r0 == getRec(S0, u)
          S1 == initUserStats(S0, m)
          r1 == getRec(S1, u)
          S2 == initUserStats(S1, m)
      IN /\ CategorySet \subseteq DOMAIN r1
         /\ \A f \in CategorySet :
              r1[f] = (IF f \in DOMAIN r0 THEN r0[f] ELSE 0)
         /\ Len(S1) = Len(S0)
         /\ \A j \in 1..Len(S0) : j # i => S1[j] = S0[j]
         /\ sameStore(S2, S1)

\* the record of u2, loaded from the older file with 9 messages, 7 images
\* and three counters missing, was repaired by a live message of u2: the
\* present counters kept their value, the missing ones are 0; the record of
\* u1 still misses counters
C13_Witness ==
  /\ hasKey(stats, "u2") /\ hasKey(stats, "u1")
  /\ getRec(stats, "u2") = [username |-> "bob", messages |-> 10, images |-> 7,
                            gifs |-> 0, videos |-> 0, links |-> 0]
  /\ "gifs" \notin DOMAIN getRec(stats, "u1")

\* S after the whole of processMessage for the message of channel c at
\* position p, if the page reaches down to p
counted(S, c, p, lo) ==
  IF p < lo \/ msgAt(channels, c, p).author.bot
    THEN S
    ELSE applyMessage(S, msgAt(channels, c, p))

\* T is S after the whole of processMessage for some number of the messages
\* of channel c at the positions p, p - 1, ..., lo, in that order
RECURSIVE wholeMessages(_, _, _, _, _)
wholeMessages(S, T, c, p, lo) ==
  LET S1 == counted(S, c, p, lo)
      S2 == counted(S1, c, p - 1, lo)
      S3 == counted(S2, c, p - 2, lo)
      S4 == counted(S3, c, p - 3, lo)
  IN \/ sameStore(S, T) \/ sameStore(S1, T) \/ sameStore(S2, T)
     \/ sameStore(S3, T) \/ sameStore(S4, T)
     \/ (p - 4 >= lo /\ wholeMessages(S4, T, c, p - 4, lo))

\* the fetch call of channel c this step has logged
loggedCall(c) == crawl'.log[c][Len(crawl'.log[c])]

\* C14: between two points where another handler can run, stats changes by
\* the whole of processMessage for a number of messages, never by a part of
\* one: a live event leaves stats as it was or with all the changes of its
\* message, and a backfill page leaves it with all the changes of the first
\* messages of the page, also when a write fails in between
C14_WholeMessagesOnly ==
  [][/\ \A c \in LiveChannels : liveStep(c) =>
          \/ sameStore(stats', stats)
          \/ /\ ~delivered(c).author.bot
             /\ sameStore(stats', applyMessage(stats, delivered(c)))
     /\ backfillStep =>
          wholeMessages(stats, stats', backfill.c,
                        pageHi(loggedCall(backfill.c)),
                        pageLo(loggedCall(backfill.c)))
     /\ (~backfillStep /\ live' = live) => sameStore(stats', stats)]_vars

\* the three kinds of handler are in flight together: a page of 100 messages
\* was counted, then a live !stats while the next page is awaited, whose
\* leaderboard task now awaits a member
C14_Witness ==
  /\ backfill.pc = "fetching" /\ backfill.c = 1
  /\ Len(crawl.log[1]) = 1 /\ crawl.log[1][1].size = 100
  /\ crawl.liveSince = 1
  /\ board.pc = "member"
  /\ sumMessages(stats) = crawl.baseTotal + 1 + nonBots(1, pageLo(crawl.log[1][1]),
                                                        pageHi(crawl.log[1][1]))

\* the run in flight has crawled every text channel to Done with no failure
\* and no live message counted
cleanRun ==
  /\ backfill.pc = "done"
  /\ crawl.liveSince = 0
  /\ \A c \in TextChannels : crawl.state[c] = "Done" /\ never(c, "error")
                             /\ never(c, "threw")

\* every text channel held in this run the messages it held in the run before
sameHistory ==
  \A c \in TextChannels : Len(crawl.log[c]) > 0 /\ heldBy(c) = crawl.prev.held[c]

\* C15: a second backfill over an unchanged history counts every message
\* again: each channel is fetched from its newest message, with no `before`
\* cursor, and when both runs are complete every record holds for each of the
\* five counters twice what the first run gave it from an empty stats
C15_SecondRunDoubles ==
  /\ \A c \in TextChannels : Len(crawl.log[c]) > 0 => crawl.log[c][1].before = 0
  /\ (crawl.prev.clean /\ cleanRun /\ sameHistory) =>
       /\ Len(stats) = Len(crawl.base)
       /\ \A i \in 1..Len(stats) :
            /\ stats[i].id = crawl.base[i].id
            /\ \A f \in CategorySet :
                 stats[i].rec[f] = 2 * crawl.base[i].rec[f]

\* two complete runs over the channel of 250 messages, the first from an
\* empty stats: u2, who has images in the history, has them twice
C15_Witness ==
  /\ crawl.runs = 2 /\ crawl.prev.clean /\ cleanRun /\ sameHistory
  /\ heldBy(1) = 250
  /\ sumMessages(crawl.base) = nonBots(1, 1, 250)
  /\ sumMessages(stats) = 2 * nonBots(1, 1, 250)
  /\ counter(crawl.base, "u2", "images") > 0
  /\ counter(stats, "u2", "images") = 2 * counter(crawl.base, "u2", "images")

\* a fetch the crawl awaits settles in the end: the promise of
\* channel.messages.fetch rejects or resolves
FairSpec == Spec /\ WF_vars(PageFetchFails \/ PageFetched)

\* this step is an iteration of the loop of a channel that does not end it
loopGoesOn ==
  backfillStep /\ backfill'.pc = "fetching" /\ backfill'.c = backfill.c

\* the text channels whose loop is running
fetchingChannels == {c \in TextChannels : crawl.state[c] = "Fetching"}

\* C16: the loop of every channel ends, whatever is posted in the meantime:
\* whenever a channel is Fetching, a state follows in which none is, and a
\* channel stops Fetching only by becoming Done or Aborted; an iteration
\* that does not end the loop fetched a full page and moves the cursor to
\* the oldest message of that page, strictly older than the cursor before
C16_BackfillTerminates ==
  /\ (fetchingChannels # {}) ~> (fetchingChannels = {})
  /\ [][\A c \in fetchingChannels :
          crawl'.state[c] # "Fetching" => crawl'.state[c] \in {"Done", "Aborted"}]_vars
  /\ [][loopGoesOn =>
          /\ loggedCall(backfill.c).size = PageSize
          /\ backfill'.lastMessageId = pageLo(loggedCall(backfill.c))
          /\ backfill'.lastMessageId >= 1
          /\ backfill.lastMessageId = 0
               \/ backfill'.lastMessageId < backfill.lastMessageId]_vars

\* the channel of 250 messages is Done after three fetch calls although a
\* message was posted in it while the crawl ran
C16_Witness ==
  /\ crawl.state[1] = "Done"
  /\ Len(crawl.log[1]) = 3
  /\ crawl.log[1][1].total = 250
  /\ crawl.log[1][3].total > 250

\* what load would read from stats.json now
snapshot == IF statsFile.exists THEN parse(statsFile.text) ELSE <<>>

\* stats.json holds stats: the same records with the same properties
snapshotIsStore == sameStore(snapshot, stats)

\* this step issued writes and none of them threw
writeSucceeded == writes' > writes /\ failedWrites' = failedWrites

\* C17: after every step whose writes of stats.json succeeded the file holds
\* stats exactly, whatever failed before; a step with no failed write keeps
\* file and stats equal; so while no write has failed they are equal in every
\* state, from the load on
C17_SnapshotFollowsStore ==
  /\ snapshotIsStore
  /\ [][/\ writeSucceeded => snapshotIsStore'
        /\ (snapshotIsStore /\ failedWrites' = failedWrites) => snapshotIsStore']_vars
  /\ [](failedWrites = 0 => snapshotIsStore)

\* a write failed, and a later write that succeeded has brought the file up
\* to stats again, the message whose write failed included
C17_Witness ==
  /\ failedWrites = 1 /\ writes = 2
  /\ statsFile.exists /\ snapshotIsStore
  /\ sumMessages(stats) = crawl.baseTotal + 2
  /\ crawl.runs = 0

\* the fallback chain: the freshly resolved name, else the stored username,
\* else the id
chainName(fresh, stored, userId) ==
  IF fresh # "" THEN fresh ELSE IF stored # "" THEN stored ELSE userId

\* C18: the name on a line follows the chain resolved name, stored username,
\* id: a line of a member the guild resolves carries the member's name when
\* it is not empty, else the username stats holds when that is not empty, else
\* the id; and a line whose resolution failed with another error than 10007
\* carries the stored username, or the id when that is empty
C18_NameFallbackChain ==
  /\ []((board.pc = "idle" /\ faults = 0) =>
          \A i \in 1..Len(statsMessage) : \A k \in 1..Len(statsMessage[i]) :
            LET userId == board.boards[i][k].id
            IN userId \in Roster =>
                 statsMessage[i][k].name =
                   chainName(memberName(userId), storedName(stats, userId), userId))
  /\ [][(boardResumes /\ faults' > faults) =>
          lineAt(board', board.cat, board.pos).name =
            chainName("", board.displayName, awaitedUser)]_vars

\* the counts of the lines, where both are numbers, do not increase
nonIncreasing(lines) ==
  \A k, l \in 1..Len(lines) :
    (k < l /\ lines[k].count.defined /\ lines[l].count.defined) =>
      lines[k].count.value >= lines[l].count.value

\* every record of S has the counter f, so that sorting S by f is a proper
\* descending sort
everyRecordHas(S, f) == \A i \in 1..Len(S) : f \in DOMAIN S[i].rec

\* C19: the counts printed in a leaderboard do not increase from one line to
\* the next, whatever is counted while the handler awaits a member
C19_PrintedCountsDescend ==
  board.pc = "idle" =>
    \A i \in 1..Len(statsMessage) :
      everyRecordHas(board.of, Categories[i]) => nonIncreasing(statsMessage[i])

\* C20: no step removes a record of stats, moves one, or lowers a counter a
\* record holds
C20_NothingRemovedNothingDecreases ==
  [][/\ Len(stats') >= Len(stats)
     /\ \A i \in 1..Len(stats) :
          /\ stats'[i].id = stats[i].id
          /\ \A f \in CategorySet \cap DOMAIN stats[i].rec :
               /\ f \in DOMAIN stats'[i].rec
               /\ stats'[i].rec[f] >= stats[i].rec[f]]_vars

\* live messages, a backfill and a leaderboard have all run: the crawl is
\* over, a live message was counted during it, a statsMessage was sent, and
\* stats holds the three authors
C20_Witness ==
  /\ backfill.pc = "done" /\ crawl.liveSince = 1
  /\ board.pc = "idle" /\ Len(statsMessage) = Len(Categories)
  /\ Len(stats) = 3
  /\ sumMessages(stats) > crawl.baseTotal + 1

====
